---- MODULE Spec2Model ----
(***************************************************************************)
(* Model of sentry.auth.helper.AuthHelper: the single-sign-on pipeline     *)
(* helper.  The session-scoped pipeline record lives in                    *)
(* request.session['auth']; one helper object exists per request; the two  *)
(* finish resolvers write users, identities, memberships, providers and    *)
(* audit entries inside transaction.atomic.                                *)
(*                                                                         *)
(* The session object the helper mutates stands for the stored session:   *)
(* what a request leaves in request.session is what the next request       *)
(* finds.  Values returned by code outside helper.py (the provider's       *)
(* pipeline and identity, the store's failures) are inputs of the actions. *)
(* Only the specification of two overlapping requests tells the session a  *)
(* request works on from the stored one: there a request loads the stored  *)
(* session, works on its copy and writes the copy back when it ends.       *)
(*                                                                         *)
(* Python values are encoded as follows.  A missing session record and a   *)
(* missing helper are the empty sequence, a present one is a sequence of   *)
(* length one.  The id None is 0 (ids start at 1), the string None is "".  *)
(* Both encodings are falsy exactly where the Python value is falsy.       *)
(***************************************************************************)
EXTENDS Integers, Sequences, FiniteSets, TLC

VARIABLES
    auth,          \* request.session['auth']: <<>> or <<record>>
    is_modified,   \* request.session.is_modified
    helper,        \* the AuthHelper of the request in progress: <<>> or <<object>>
    db,            \* the persistent store behind sentry.models
    request_user,  \* request.user, the user the session is authenticated as
    last,          \* what the last operation returned, raised and dispatched
    origin,        \* history: the pipeline of the helper that wrote the record
    store,         \* the stored session's 'auth' entry: <<>> or <<record>>
    base,          \* <<>>, or <<what the request in progress loaded from store>>
    parked         \* the session, helper and result of a second, suspended request

vars == <<auth, is_modified, helper, db, request_user, last, origin,
          store, base, parked>>

\* the variables only overlapping requests change
race == <<store, base, parked>>

-----------------------------------------------------------------------------
(* Bounds of the model. *)

\* longest pipeline a provider returns
MaxSteps == 2
\* longest step identifier (get_ident) in the signature specification
MaxIdentLen == 1
\* next_step is not taken once 'idx' has reached this value
MaxIdx == 2
\* AuthProvider rows the store can hold in the specification of the resolvers
MaxProviders == 2
\* AuthProvider rows the store can hold in the other specifications
FewProviders == 1

-----------------------------------------------------------------------------
(* Program constants and input universes. *)

FLOW_LOGIN == 1
FLOW_SETUP_PROVIDER == 2

\* flows a caller may pass to the constructor; 3 is a flow the code rejects
Flows == {FLOW_LOGIN, FLOW_SETUP_PROVIDER, 3}

\* the only organization; Organization.objects.get always finds it
Org == "org1"

\* provider keys known to the provider manager
ProviderKeys == {"dummy"}

\* characters of step identifiers
Chars == {"a", " "}

RECURSIVE StrsOfLen(_)
StrsOfLen(n) ==
    IF n = 0 THEN {""} ELSE {s \o c : s \in StrsOfLen(n - 1), c \in Chars}

\* every identifier get_ident can return, up to the bound
Idents == UNION {StrsOfLen(n) : n \in 0..MaxIdentLen}

SeqsUpTo(S, n) == UNION {[1..k -> S] : k \in 0..n}

\* every pipeline over arbitrary identifiers
Pipelines == SeqsUpTo(Idents, MaxSteps)

\* pipelines of the main specification: a provider whose views have distinct
\* identifiers and whose pipeline grows or shrinks at its end between requests
StepNames == <<"a", "b", "c", "d">>
MainPipelines == {SubSeq(StepNames, 1, n) : n \in 0..MaxSteps}

\* the pipeline without steps, which finishes on the first next_step
NoSteps == {<<>>}

\* keys and values views bind into the state blob
Keys == {"k1"}
\* the keys and values of the runs that look at the state blob
StateKeys == {"k1", "k2"}
StateValues == {"v1", "v2"}
Values == {"v1"}

\* external subject ids and provider data an identity can carry;
\* "{}" is the empty dict, Missing says the identity dict has no 'data' key
ExtIds == {"x1", "x2"}
Missing == "<missing>"
EmptyDict == "{}"
Datas == {EmptyDict, "d1"}

\* the dicts provider.build_identity can return
IdentityDict(x, d) ==
    [id |-> x, email |-> x \o "@example.com", name |-> x, data |-> d]
Identities == {IdentityDict(x, d) : x \in ExtIds, d \in Datas \cup {Missing}}

\* the identities of the main specification carry no provider data
PlainIdentities == {IdentityDict(x, EmptyDict) : x \in ExtIds}

\* the collaborator call of a finish at which the environment makes it raise
FailPoints ==
    {"none", "build_identity", "build_config", "User.create",
     "AuthIdentity.create", "OrganizationMember.create", "AuditLogEntry.create",
     "AuthProvider.create", "create_or_update", "update", "login"}

Messages == {"boom"}

-----------------------------------------------------------------------------
(* Python helpers. *)

\* ' '.join(strs)
RECURSIVE Join(_)
Join(strs) ==
    IF Len(strs) = 0 THEN ""
    ELSE IF Len(strs) = 1 THEN strs[1]
    ELSE strs[1] \o " " \o Join(Tail(strs))

\* md5(s).hexdigest(), taken to be collision-free
md5(s) == "md5(" \o s \o ")"

\* the signature the constructor computes for a pipeline
Signature(pipeline) == md5(Join(pipeline))

\* a seq[i] that counts from 1
PyIndexFromOne(seq, i) == IF i >= 1 THEN seq[i] ELSE seq[Len(seq) + i]

\* seq[i] of a Python list: i counts from 0, a negative i counts from the end
PyInRange(seq, i) == -Len(seq) <= i /\ i < Len(seq)
PyIndex(seq, i) == IF i >= 0 THEN seq[i + 1] ELSE seq[Len(seq) + i + 1]

\* dict.get(key) of the state blob, a function on the keys bound so far
DictGet(d, k) == IF k \in DOMAIN d THEN d[k] ELSE "None"
\* a d[k] = v that builds a new dict holding k alone
DictSetAlone(d, k, v) == [x \in {k} |-> v]

\* d[k] = v
DictSet(d, k, v) == [x \in DOMAIN d \cup {k} |-> IF x = k THEN v ELSE d[x]]
EmptyState == [x \in {} |-> "None"]

-----------------------------------------------------------------------------
(* The store. *)

EmptyDb ==
    [users      |-> <<[email |-> "admin@example.com", first_name |-> "admin",
                       is_managed |-> FALSE]>>,
     identities |-> <<>>,
     members    |-> <<>>,
     providers  |-> <<>>,
     audit      |-> <<>>]

\* Model.objects.create: a row with the next id
Create(table, row) == Append(table, row)

\* AuthIdentity.objects.filter(auth_provider=ap, ident=x): the ids of the rows
Subject(d, ap, x) ==
    {i \in 1..Len(d.identities) :
        d.identities[i].auth_provider = ap /\ d.identities[i].ident = x}

ProviderExists(d, id) == id \in 1..Len(d.providers)

-----------------------------------------------------------------------------
(* The result of an operation, kept in 'last'. *)

Result(op, ret, view, fin, msg) ==
    [op |-> op, ret |-> ret, view |-> view, fin |-> fin, msg |-> msg,
     ident |-> "", failAt |-> "", key |-> "", value |-> ""]

\* the result of a bind_state or fetch_state on key
StateResult(op, ret, key, value) ==
    [Result(op, ret, "", FALSE, "") EXCEPT !.key = key, !.value = value]

\* the result of a next_step that ran finish_pipeline on identity with failAt
FinishResult(ret, identity, failAt) ==
    [op |-> "next_step", ret |-> ret, view |-> "", fin |-> TRUE, msg |-> "",
     ident |-> identity.id, failAt |-> failAt, key |-> "", value |-> ""]

NoResult == Result("", "", "", FALSE, "")

\* the running request as it is suspended
Context ==
    [auth |-> auth, is_modified |-> is_modified, helper |-> helper,
     last |-> last, base |-> base]

\* no request
IdleContext ==
    [auth |-> <<>>, is_modified |-> FALSE, helper |-> <<>>, last |-> NoResult,
     base |-> <<>>]

Init ==
    /\ auth = <<>>
    /\ is_modified = FALSE
    /\ helper = <<>>
    /\ db = EmptyDb
    /\ request_user = 1
    /\ last = NoResult
    /\ origin = <<>>
    /\ store = <<>>
    /\ base = <<>>
    /\ parked = IdleContext

-----------------------------------------------------------------------------
(* AuthHelper.__init__ *)

\* the helper object, or the name of the exception the constructor raises
NewHelper(d, organization, flow, auth_provider, provider_key, pipeline) ==
    IF provider_key = "" /\ auth_provider = 0
    THEN [exc |-> "AssertionError", obj |-> <<>>]
    ELSE IF flow \notin {FLOW_LOGIN, FLOW_SETUP_PROVIDER}
    THEN [exc |-> "NotImplementedError", obj |-> <<>>]
    ELSE [exc |-> "",
          obj |-> <<[organization  |-> organization,
                     flow          |-> flow,
                     auth_provider |-> auth_provider,
                     provider      |-> IF auth_provider # 0
                                       THEN d.providers[auth_provider].provider
                                       ELSE provider_key,
                     pipeline      |-> pipeline,
                     signature     |-> Signature(pipeline)]>>]

\* a view builds a helper at the start of a request
Construct(flow, auth_provider, provider_key, pipeline) ==
    /\ helper = <<>>
    /\ auth_provider = 0 \/ ProviderExists(db, auth_provider)
    /\ LET r == NewHelper(db, Org, flow, auth_provider, provider_key, pipeline)
       IN  /\ helper' = r.obj
           /\ last' = Result("__init__", r.exc, "", FALSE, "")
    /\ UNCHANGED <<auth, is_modified, db, request_user, origin>>
    /\ UNCHANGED race

\* the request ends: its helper is gone, the next request gets a session
\* object on which is_modified has not been set
EndRequest ==
    /\ helper # <<>>
    /\ helper' = <<>>
    /\ is_modified' = FALSE
    /\ last' = NoResult
    /\ UNCHANGED <<auth, db, request_user, origin>>
    /\ UNCHANGED race

-----------------------------------------------------------------------------
(* AuthHelper.get_for_request *)

get_for_request(pipeline) ==
    /\ helper = <<>>
    /\ LET organization_id == IF auth = <<>> THEN "" ELSE auth[1].org
           r == IF organization_id = ""
                THEN [exc |-> "", obj |-> <<>>]
                ELSE IF auth[1].ap # 0 /\ ~ProviderExists(db, auth[1].ap)
                THEN [exc |-> "DoesNotExist", obj |-> <<>>]
                ELSE IF auth[1].ap = 0 /\ auth[1].p = ""
                THEN [exc |-> "UnboundLocalError", obj |-> <<>>]
                ELSE NewHelper(db, auth[1].org, auth[1].flow, auth[1].ap,
                               auth[1].p, pipeline)
       IN  /\ helper' = r.obj
           /\ last' = Result("get_for_request",
                             IF r.exc # "" THEN r.exc
                             ELSE IF r.obj = <<>> THEN "None" ELSE "",
                             "", FALSE, "")
    /\ UNCHANGED <<auth, is_modified, db, request_user, origin>>
    /\ UNCHANGED race

-----------------------------------------------------------------------------
(* AuthHelper.pipeline_is_valid *)

\* what pipeline_is_valid returns for helper object h and session record a
IsValid(h, a) == a # <<>> /\ a[1].sig = h.signature

pipeline_is_valid ==
    /\ helper # <<>>
    /\ last' = Result("pipeline_is_valid",
                      IF IsValid(helper[1], auth) THEN "True" ELSE "False",
                      "", FALSE, "")
    /\ UNCHANGED <<auth, is_modified, helper, db, request_user, origin>>
    /\ UNCHANGED race

-----------------------------------------------------------------------------
(* AuthHelper.init_pipeline *)

\* an init_pipeline that starts at the first step instead of before it
FreshSessionAtZero(h) ==
    [ap    |-> h.auth_provider,
     p     |-> h.provider,
     org   |-> h.organization,
     idx   |-> 0,
     sig   |-> h.signature,
     flow  |-> h.flow,
     state |-> EmptyState]

\* the record init_pipeline writes for helper object h
FreshSession(h) ==
    [ap    |-> h.auth_provider,
     p     |-> h.provider,
     org   |-> h.organization,
     idx   |-> -1,
     sig   |-> h.signature,
     flow  |-> h.flow,
     state |-> EmptyState]

init_pipeline ==
    /\ helper # <<>>
    /\ auth' = <<FreshSession(helper[1])>>
    /\ is_modified' = TRUE
    /\ last' = Result("init_pipeline", "", "", FALSE, "")
    /\ origin' = <<helper[1].pipeline>>
    /\ UNCHANGED <<helper, db, request_user>>
    /\ UNCHANGED race

-----------------------------------------------------------------------------
(* AuthHelper.get_current_view *)

\* the step get_current_view returns, or the exception it raises
CurrentView(h, a) ==
    IF a = <<>> THEN [exc |-> "KeyError", view |-> ""]
    ELSE IF ~PyInRange(h.pipeline, a[1].idx)
    THEN [exc |-> "IndexError", view |-> ""]
    ELSE [exc |-> "", view |-> PyIndex(h.pipeline, a[1].idx)]

get_current_view ==
    /\ helper # <<>>
    /\ LET r == CurrentView(helper[1], auth)
       IN  last' = Result("get_current_view", r.exc, r.view, FALSE, "")
    /\ UNCHANGED <<auth, is_modified, helper, db, request_user, origin>>
    /\ UNCHANGED race

-----------------------------------------------------------------------------
(* AuthHelper.error *)

\* an error() with the two redirects exchanged
ErrorRedirectSwapped(flow) ==
    IF flow = FLOW_LOGIN THEN "sentry-organization-auth-settings"
    ELSE IF flow = FLOW_SETUP_PROVIDER THEN "sentry-auth-organization"
    ELSE "UnboundLocalError"

\* the page error() redirects to for the flow stored in the session
ErrorRedirect(flow) ==
    IF flow = FLOW_LOGIN THEN "sentry-auth-organization"
    ELSE IF flow = FLOW_SETUP_PROVIDER THEN "sentry-organization-auth-settings"
    ELSE "UnboundLocalError"

error(message) ==
    /\ helper # <<>>
    /\ last' = IF auth = <<>>
               THEN Result("error", "KeyError", "", FALSE, "")
               ELSE IF auth[1].flow \notin {FLOW_LOGIN, FLOW_SETUP_PROVIDER}
               THEN Result("error", "UnboundLocalError", "", FALSE,
                           "Authentication error: " \o message)
               ELSE Result("error", ErrorRedirect(auth[1].flow), "", FALSE,
                           "Authentication error: " \o message)
    /\ UNCHANGED <<auth, is_modified, helper, db, request_user, origin>>
    /\ UNCHANGED race

-----------------------------------------------------------------------------
(* AuthHelper.bind_state and AuthHelper.fetch_state *)

bind_state(key, value) ==
    /\ helper # <<>>
    /\ IF auth = <<>>
       THEN /\ last' = StateResult("bind_state", "KeyError", key, value)
            /\ UNCHANGED <<auth, is_modified>>
       ELSE /\ auth' = <<[auth[1] EXCEPT !.state = DictSet(@, key, value)]>>
            /\ is_modified' = TRUE
            /\ last' = StateResult("bind_state", "", key, value)
    /\ UNCHANGED <<helper, db, request_user, origin>>
    /\ UNCHANGED race

fetch_state(key) ==
    /\ helper # <<>>
    /\ last' = IF auth = <<>>
               THEN StateResult("fetch_state", "KeyError", key, "")
               ELSE StateResult("fetch_state", DictGet(auth[1].state, key),
                                key, "")
    /\ UNCHANGED <<auth, is_modified, helper, db, request_user, origin>>
    /\ UNCHANGED race

-----------------------------------------------------------------------------
(* The finish resolvers.  A resolver returns the store as its writes left  *)
(* it, the exception it raised (or ""), its response, request.user and     *)
(* self.auth_provider.  failAt names the collaborator call that raises.    *)

Outcome(d, exc, ret, user, ap) ==
    [db |-> d, exc |-> exc, ret |-> ret, user |-> user, ap |-> ap]

Injected(failAt) == "Error:" \o failAt

\* identity.get('data', {})
DataOrDefault(identity) ==
    IF identity.data = Missing THEN EmptyDict ELSE identity.data

\* the except branch of _finish_login_pipeline and the statements after it:
\* auth_identity was never bound, so 'auth_identity.user' raises
LoginCreate(h, d, user, identity, failAt) ==
    LET new == Len(d.users) + 1
        d1 == [d EXCEPT !.users = Create(@,
                  [email |-> identity.email, first_name |-> identity.name,
                   is_managed |-> TRUE])]
        d2 == [d1 EXCEPT !.identities = Create(@,
                  [auth_provider |-> h.auth_provider, user |-> new,
                   ident |-> identity.id, data |-> EmptyDict])]
        om == Len(d2.members) + 1
        d3 == [d2 EXCEPT !.members = Create(@,
                  [organization |-> h.organization, user |-> new,
                   type |-> "default_role", has_global_access |-> TRUE])]
        d4 == [d3 EXCEPT !.audit = Create(@,
                  [organization |-> h.organization, actor |-> new,
                   target_object |-> om, target_user |-> new,
                   event |-> "MEMBER_ADD"])]
    IN  IF failAt = "User.create"
        THEN Outcome(d, Injected(failAt), "", user, h.auth_provider)
        ELSE IF failAt = "AuthIdentity.create"
        THEN Outcome(d1, Injected(failAt), "", user, h.auth_provider)
        ELSE IF h.auth_provider = 0
        THEN Outcome(d2, "AttributeError", "", user, h.auth_provider)
        ELSE IF failAt = "OrganizationMember.create"
        THEN Outcome(d2, Injected(failAt), "", user, h.auth_provider)
        ELSE IF failAt = "AuditLogEntry.create"
        THEN Outcome(d3, Injected(failAt), "", user, h.auth_provider)
        ELSE Outcome(d4, "UnboundLocalError", "", user, h.auth_provider)

\* the else branch of _finish_login_pipeline and the statements after it
LoginExisting(h, d, user, i, identity, failAt) ==
    LET row == d.identities[i]
        d1  == [d EXCEPT !.identities[i].data = identity.data]
        differs == row.data # DataOrDefault(identity)
        d2  == IF differs THEN d1 ELSE d
    IN  IF differs /\ identity.data = Missing
        THEN Outcome(d, "KeyError", "", user, h.auth_provider)
        ELSE IF differs /\ failAt = "update"
        THEN Outcome(d, Injected(failAt), "", user, h.auth_provider)
        ELSE IF failAt = "login"
        THEN Outcome(d2, Injected(failAt), "", user, h.auth_provider)
        ELSE Outcome(d2, "", "login-redirect", row.user, h.auth_provider)

\* the body of _finish_login_pipeline
FinishLoginBody(h, d, user, identity, failAt) ==
    LET found == Subject(d, h.auth_provider, identity.id)
    IN  IF found = {} THEN LoginCreate(h, d, user, identity, failAt)
        ELSE IF Cardinality(found) > 1
        THEN Outcome(d, "MultipleObjectsReturned", "", user, h.auth_provider)
        ELSE LoginExisting(h, d, user, CHOOSE i \in found : TRUE, identity, failAt)

\* AuthIdentity.objects.create_or_update(user, ident, auth_provider, defaults)
CreateOrUpdate(d, user, ident, ap, data) ==
    LET found == {i \in Subject(d, ap, ident) : d.identities[i].user = user}
    IN  IF found = {}
        THEN [d EXCEPT !.identities = Create(@,
                 [auth_provider |-> ap, user |-> user, ident |-> ident,
                  data |-> data])]
        ELSE [d EXCEPT !.identities =
                 [i \in DOMAIN @ |->
                     IF i \in found THEN [@[i] EXCEPT !.data = data] ELSE @[i]]]

\* the body of _finish_setup_pipeline
FinishSetupBody(h, d, user, identity, failAt) ==
    LET ap == Len(d.providers) + 1
        d1 == [d EXCEPT !.providers = Create(@,
                  [organization |-> h.organization, provider |-> h.provider,
                   config |-> "config"])]
        d2 == CreateOrUpdate(d1, user, identity.id, ap, DataOrDefault(identity))
        d3 == [d2 EXCEPT !.audit = Create(@,
                  [organization |-> h.organization, actor |-> user,
                   target_object |-> ap, target_user |-> 0,
                   event |-> "SSO_ENABLE"])]
    IN  IF failAt = "build_config"
        THEN Outcome(d, Injected(failAt), "", user, h.auth_provider)
        ELSE IF failAt = "AuthProvider.create"
        THEN Outcome(d, Injected(failAt), "", user, h.auth_provider)
        ELSE IF failAt = "create_or_update"
        THEN Outcome(d1, Injected(failAt), "", user, ap)
        ELSE IF failAt = "AuditLogEntry.create"
        THEN Outcome(d2, Injected(failAt), "", user, ap)
        ELSE Outcome(d3, "", "settings-redirect", user, ap)

\* a resolver without the decorator: what it wrote before raising stays
no_rollback(d, out) == out

\* @transaction.atomic: what the body wrote is undone when it raises
transaction_atomic(d, out) ==
    IF out.exc # "" THEN [out EXCEPT !.db = d] ELSE out

finish_login_pipeline(h, d, user, identity, failAt) ==
    transaction_atomic(d, FinishLoginBody(h, d, user, identity, failAt))

finish_setup_pipeline(h, d, user, identity, failAt) ==
    transaction_atomic(d, FinishSetupBody(h, d, user, identity, failAt))

-----------------------------------------------------------------------------
(* AuthHelper.finish_pipeline *)

\* the session record, the store, request.user and self.auth_provider after
\* finish_pipeline ran on session record a, with its response or exception
finish_pipeline(h, a, d, user, identity, failAt) ==
    LET flow == a[1].flow
        out  == IF flow = FLOW_LOGIN
                THEN finish_login_pipeline(h, d, user, identity, failAt)
                ELSE IF flow = FLOW_SETUP_PROVIDER
                THEN finish_setup_pipeline(h, d, user, identity, failAt)
                ELSE Outcome(d, "", "", user, h.auth_provider)
    IN  IF failAt = "build_identity"
        THEN [auth |-> a, out |-> Outcome(d, Injected(failAt), "", user,
                                          h.auth_provider)]
        ELSE IF out.exc # ""
        THEN [auth |-> a, out |-> out]
        ELSE IF flow \notin {FLOW_LOGIN, FLOW_SETUP_PROVIDER}
        THEN [auth |-> <<>>, out |-> [out EXCEPT !.exc = "UnboundLocalError"]]
        ELSE [auth |-> <<>>, out |-> out]

-----------------------------------------------------------------------------
(* AuthHelper.next_step *)

\* a next_step that rebuilds the record and loses the provider reference
IncrementDropProvider(a) == <<[a[1] EXCEPT !.idx = @ + 1, !.ap = 0]>>

\* a next_step that rebuilds the record and loses the state blob
IncrementDropState(a) == <<[a[1] EXCEPT !.idx = @ + 1, !.state = EmptyState]>>

\* a next_step that skips a step
IncrementTwice(a) == <<[a[1] EXCEPT !.idx = @ + 2]>>

\* session['idx'] += 1
Increment(a) == <<[a[1] EXCEPT !.idx = @ + 1]>>

\* the finish this call would run creates an AuthProvider row
CreatesProvider(h, a) ==
    /\ a[1].idx + 1 = Len(h.pipeline)
    /\ a[1].flow = FLOW_SETUP_PROVIDER

next_step(identities, failPoints, maxProviders) ==
    /\ helper # <<>>
    /\ IF auth = <<>>
       THEN /\ last' = Result("next_step", "KeyError", "", FALSE, "")
            /\ UNCHANGED <<auth, is_modified, helper, db, request_user, origin>>
       ELSE /\ auth[1].idx < MaxIdx
            /\ CreatesProvider(helper[1], auth) => Len(db.providers) < maxProviders
            /\ LET h   == helper[1]
                   a   == Increment(auth)
                   idx == a[1].idx
               IN  /\ is_modified' = TRUE
                   /\ IF idx = Len(h.pipeline)
                      THEN \E identity \in identities, failAt \in failPoints :
                           LET f == finish_pipeline(h, a, db, request_user,
                                                    identity, failAt)
                           IN  /\ auth' = f.auth
                               /\ db' = f.out.db
                               /\ request_user' = f.out.user
                               /\ helper' = <<[h EXCEPT !.auth_provider = f.out.ap]>>
                               /\ origin' = IF f.auth = <<>> THEN <<>> ELSE origin
                               /\ last' = FinishResult(
                                             IF f.out.exc # "" THEN f.out.exc
                                             ELSE f.out.ret,
                                             identity, failAt)
                      ELSE /\ auth' = a
                           /\ last' = IF PyInRange(h.pipeline, idx)
                                      THEN Result("next_step", "dispatch",
                                                  PyIndex(h.pipeline, idx),
                                                  FALSE, "")
                                      ELSE Result("next_step", "IndexError", "",
                                                  FALSE, "")
                           /\ UNCHANGED <<helper, db, request_user, origin>>
    /\ UNCHANGED race

-----------------------------------------------------------------------------
(* The specification. *)

\* the arguments a view can construct a helper with
ConstructArgs(flows, pipelines, maxProviders) ==
    {<<flow, ap, pk, pipeline>> :
        flow \in flows, ap \in 0..maxProviders, pk \in ProviderKeys \cup {""},
        pipeline \in pipelines}

\* the pipeline state machine: every operation of the helper
Next ==
    \/ \E c \in ConstructArgs(Flows, MainPipelines, FewProviders) :
          Construct(c[1], c[2], c[3], c[4])
    \/ \E pipeline \in MainPipelines : get_for_request(pipeline)
    \/ EndRequest
    \/ pipeline_is_valid
    \/ init_pipeline
    \/ get_current_view
    \/ next_step(PlainIdentities, FailPoints, FewProviders)
    \/ \E message \in Messages : error(message)
    \/ \E key \in Keys, value \in Values : bind_state(key, value)
    \/ \E key \in Keys : fetch_state(key)

Spec == Init /\ [][Next]_vars

\* the finish resolvers: pipelines without steps, identities with provider data
NextFinish ==
    \/ \E c \in ConstructArgs({FLOW_LOGIN, FLOW_SETUP_PROVIDER}, NoSteps, MaxProviders) :
          Construct(c[1], c[2], c[3], c[4])
    \/ \E pipeline \in NoSteps : get_for_request(pipeline)
    \/ EndRequest
    \/ init_pipeline
    \/ next_step(Identities, FailPoints, MaxProviders)

SpecFinish == Init /\ [][NextFinish]_vars

\* the signature: pipelines over arbitrary identifiers, no step is taken
NextSig ==
    \/ \E c \in ConstructArgs({FLOW_SETUP_PROVIDER}, Pipelines, FewProviders) :
          Construct(c[1], c[2], c[3], c[4])
    \/ \E pipeline \in Pipelines : get_for_request(pipeline)
    \/ EndRequest
    \/ init_pipeline
    \/ pipeline_is_valid

SpecSig == Init /\ [][NextSig]_vars

\* the provider resolves this pipeline for every helper of a pipeline run
SamePipeline(pipeline) == origin = <<>> \/ origin = <<pipeline>>

\* pipeline runs whose helpers all resolve the pipeline the run started with,
\* binding and fetching two keys
NextRun ==
    \/ \E c \in ConstructArgs({FLOW_LOGIN, FLOW_SETUP_PROVIDER}, MainPipelines,
                              FewProviders) :
          SamePipeline(c[4]) /\ Construct(c[1], c[2], c[3], c[4])
    \/ \E pipeline \in MainPipelines :
          SamePipeline(pipeline) /\ get_for_request(pipeline)
    \/ EndRequest
    \/ init_pipeline
    \/ next_step(PlainIdentities, {"none", "build_identity"}, FewProviders)
    \/ \E message \in Messages : error(message)
    \/ \E key \in StateKeys, value \in StateValues : bind_state(key, value)
    \/ \E key \in StateKeys : fetch_state(key)

SpecRun == Init /\ [][NextRun]_vars

-----------------------------------------------------------------------------
(* Two requests on one session.  The session store loads the session for a *)
(* request, which works on its copy, and writes the copy back at the end   *)
(* of the request when the dirty flag is set.                              *)

\* the session middleware hands the request the stored session
LoadSession ==
    /\ helper = <<>>
    /\ base = <<>>
    /\ auth' = store
    /\ base' = <<store>>
    /\ is_modified' = FALSE
    /\ last' = NoResult
    /\ UNCHANGED <<helper, db, request_user, origin, store, parked>>

\* the request ends: a session marked modified is written back whole
SaveSession ==
    /\ base # <<>>
    /\ store' = IF is_modified THEN auth ELSE store
    /\ auth' = <<>>
    /\ base' = <<>>
    /\ helper' = <<>>
    /\ is_modified' = FALSE
    /\ last' = NoResult
    /\ UNCHANGED <<db, request_user, origin, parked>>

\* the server goes on with the other request
SwitchRequest ==
    /\ parked' = Context
    /\ auth' = parked.auth
    /\ is_modified' = parked.is_modified
    /\ helper' = parked.helper
    /\ last' = parked.last
    /\ base' = parked.base
    /\ UNCHANGED <<db, request_user, origin, store>>

\* the request found no record in the session it loaded
LoadedNothing == base = << <<>> >>

\* the request has not advanced the record it loaded; a request that loaded
\* none is the one that starts the pipeline
NotAdvanced ==
    IF base = <<>> THEN TRUE
    ELSE IF base[1] = <<>> THEN TRUE
    ELSE IF auth = <<>> THEN FALSE
    ELSE auth[1].idx = base[1][1].idx

\* the one pipeline the provider resolves for the overlapping requests
RacePipelines == {SubSeq(StepNames, 1, MaxSteps)}

\* a request that finds no record starts the setup pipeline; later requests,
\* two at a time, load the record, advance it once and write it back
NextRace ==
    \/ LoadSession
    \/ \E c \in ConstructArgs({FLOW_SETUP_PROVIDER}, RacePipelines, 0) :
          LoadedNothing /\ Construct(c[1], c[2], c[3], c[4])
    \/ \E pipeline \in RacePipelines :
          base # <<>> /\ get_for_request(pipeline)
    \/ LoadedNothing /\ init_pipeline
    \/ NotAdvanced /\ next_step(PlainIdentities, {"none"}, MaxProviders)
    \/ \E key \in Keys, value \in Values : bind_state(key, value)
    \/ SaveSession
    \/ SwitchRequest

SpecRace == Init /\ [][NextRace]_vars

-----------------------------------------------------------------------------
(* Properties. *)

\* the operation a step of the specification performed
Did(op) == last'.op = op

\* the record exists before and after the step
KeepsRecord == auth # <<>> /\ auth' # <<>>

\* C1: every next_step that leaves the record in the session changes 'idx'
\* from i to exactly i + 1, init_pipeline restarts it at -1, and no other
\* operation creates, removes or changes the record's 'idx'.
C1_StepIndexOrder ==
    [][ /\ (Did("next_step") /\ KeepsRecord) => auth'[1].idx = auth[1].idx + 1
        /\ Did("next_step") => auth # <<>> \/ auth' = <<>>
        /\ Did("init_pipeline") => auth' # <<>> /\ auth'[1].idx = -1
        /\ ~Did("next_step") /\ ~Did("init_pipeline") =>
              /\ auth = <<>> <=> auth' = <<>>
              /\ KeepsRecord => auth'[1].idx = auth[1].idx
      ]_vars

\* two advances of a freshly initialised pipeline dispatched its second step
C1_Witness ==
    /\ last.op = "next_step"
    /\ last.ret = "dispatch"
    /\ auth # <<>>
    /\ auth[1].idx = 1

\* C2: while the session holds the record a helper wrote for its pipeline of
\* N steps, -1 <= idx <= N, also after a finish whose resolver failed.
C2_IndexWithinStepCount ==
    (auth # <<>> /\ helper # <<>> /\ origin = <<helper[1].pipeline>>) =>
        /\ -1 <= auth[1].idx
        /\ auth[1].idx <= Len(helper[1].pipeline)

\* C3: a next_step on a helper whose pipeline_is_valid() is false leaves the
\* record as it is, dispatches no step and does not run finish_pipeline.
C3_RefusesWhenInvalid ==
    [][ (/\ Did("next_step")
         /\ helper # <<>>
         /\ auth # <<>>
         /\ ~IsValid(helper[1], auth)) =>
            /\ auth' = auth
            /\ last'.view = ""
            /\ ~last'.fin
      ]_vars

\* C6: after a next_step that ran finish_pipeline the session holds no
\* 'auth' record, whether the finish returned or raised.
C6_FinishClearsRecord ==
    (last.op = "next_step" /\ last.fin) => auth = <<>>

\* the AuthIdentity rows binding user u to external subject x
Binding(d, u, x) ==
    {i \in 1..Len(d.identities) :
        d.identities[i].user = u /\ d.identities[i].ident = x}

\* the step is a next_step that ran finish_pipeline for flow on subject x
Finishes(flow, x) ==
    /\ Did("next_step")
    /\ last'.fin
    /\ last'.ident = x
    /\ auth[1].flow = flow

\* the step is a login finish on subject x, for a helper that has an
\* AuthProvider, in which no collaborator fails
CleanLogin(x) ==
    /\ Finishes(FLOW_LOGIN, x)
    /\ last'.failAt = "none"
    /\ helper[1].auth_provider # 0

\* C4: for a helper looking at the record another helper wrote for pipeline
\* S, pipeline_is_valid() is true exactly if its own pipeline equals S.
C4_ValidIffSameSequence ==
    (helper # <<>> /\ auth # <<>>) =>
        (IsValid(helper[1], auth) <=> helper[1].pipeline = origin[1])

\* C5: the signature of a helper's pipeline is the signature of that list of
\* identifiers and of no other list.
C5_SignatureInjective ==
    helper # <<>> =>
        \A p \in Pipelines :
            Signature(p) = helper[1].signature <=> p = helper[1].pipeline

\* C7: a login finish for a subject without AuthIdentity creates a user, an
\* identity, a membership and a MEMBER_ADD entry, logs that user in, clears
\* the record and returns the login redirect.
C7_LoginCreatesAndSignsIn ==
    [][ \A x \in ExtIds :
          (CleanLogin(x) /\ Subject(db, helper[1].auth_provider, x) = {}) =>
              /\ last'.ret = "login-redirect"
              /\ auth' = <<>>
              /\ Len(db'.users) = Len(db.users) + 1
              /\ Cardinality(Subject(db', helper[1].auth_provider, x)) = 1
              /\ Len(db'.members) = Len(db.members) + 1
              /\ Len(db'.audit) = Len(db.audit) + 1
              /\ db'.audit[Len(db'.audit)].event = "MEMBER_ADD"
              /\ request_user' = Len(db'.users)
      ]_vars

\* C8: after a login finish the subject has exactly one identity; the finish
\* that finds none creates one user, membership and audit entry, the finish
\* that finds one creates nothing.
C8_LoginFinishIdempotent ==
    [][ \A x \in ExtIds :
          CleanLogin(x) =>
              LET ap == helper[1].auth_provider
              IN  /\ Cardinality(Subject(db', ap, x)) = 1
                  /\ Subject(db, ap, x) = {} =>
                        /\ Len(db'.users) = Len(db.users) + 1
                        /\ Len(db'.members) = Len(db.members) + 1
                        /\ Len(db'.audit) = Len(db.audit) + 1
                  /\ Subject(db, ap, x) # {} =>
                        /\ Subject(db', ap, x) = Subject(db, ap, x)
                        /\ db'.users = db.users
                        /\ db'.members = db.members
                        /\ db'.audit = db.audit
      ]_vars

\* the finish of result r raised
Raised(r) == r.fin /\ r.ret \notin {"login-redirect", "settings-redirect"}

\* the rows one resolver run writes are in the store together
AllOrNothing(d) ==
    /\ \A p \in 1..Len(d.providers) :
          /\ \E i \in 1..Len(d.identities) : d.identities[i].auth_provider = p
          /\ \E j \in 1..Len(d.audit) :
                d.audit[j].event = "SSO_ENABLE" /\ d.audit[j].target_object = p
    /\ \A u \in 1..Len(d.users) :
          d.users[u].is_managed =>
              /\ \E i \in 1..Len(d.identities) : d.identities[i].user = u
              /\ \E m \in 1..Len(d.members) : d.members[m].user = u
              /\ \E j \in 1..Len(d.audit) :
                    d.audit[j].event = "MEMBER_ADD" /\ d.audit[j].target_user = u
    /\ \A i \in 1..Len(d.identities) :
          /\ d.identities[i].auth_provider \in 1..Len(d.providers)
          /\ d.identities[i].user \in 1..Len(d.users)
    /\ \A m \in 1..Len(d.members) : d.members[m].user \in 1..Len(d.users)
    /\ \A j \in 1..Len(d.audit) :
          /\ d.audit[j].event = "SSO_ENABLE" =>
                d.audit[j].target_object \in 1..Len(d.providers)
          /\ d.audit[j].event = "MEMBER_ADD" =>
                d.audit[j].target_object \in 1..Len(d.members)

\* C9: a finish whose resolver raised leaves the store as it was, and the
\* store never holds only some of the rows of a resolver run.
C9_ResolversAreAtomic ==
    [][ /\ (Did("next_step") /\ Raised(last')) => db' = db
        /\ AllOrNothing(db')
      ]_vars

\* a resolver raised at its last write, after its other writes
C9_Witness ==
    /\ last.fin
    /\ last.failAt = "AuditLogEntry.create"
    /\ last.ret = Injected("AuditLogEntry.create")

\* C10: a setup finish for a user and subject that already have an identity
\* leaves exactly that one identity for them.
C10_SetupUpserts ==
    [][ \A x \in ExtIds :
          (/\ Finishes(FLOW_SETUP_PROVIDER, x)
           /\ last'.ret = "settings-redirect"
           /\ Binding(db, request_user, x) # {}) =>
              /\ Binding(db', request_user, x) = Binding(db, request_user, x)
              /\ Cardinality(Binding(db', request_user, x)) = 1
      ]_vars

\* C11: get_for_request never raises: it returns a helper or None.
C11_LoadNeverRaises ==
    last.op = "get_for_request" => last.ret \in {"", "None"}

\* C12: a session record has exactly one of 'ap' and 'p' set.
C12_OneProviderReference ==
    auth # <<>> => ((auth[1].ap # 0) /\ (auth[1].p = "")) \/
                   ((auth[1].ap = 0) /\ (auth[1].p # ""))

\* C13: error() on a session with a record redirects to the organization's
\* SSO page for the login flow and to its auth-settings page for the setup
\* flow, carries the message, and leaves the session as it is.
C13_ErrorRedirectsAndKeepsRecord ==
    [][ Did("error") =>
          /\ auth' = auth
          /\ is_modified' = is_modified
          /\ (auth # <<>> /\ auth[1].flow = FLOW_LOGIN) =>
                last'.ret = "sentry-auth-organization"
          /\ (auth # <<>> /\ auth[1].flow = FLOW_SETUP_PROVIDER) =>
                last'.ret = "sentry-organization-auth-settings"
          /\ auth # <<>> =>
                \E m \in Messages : last'.msg = "Authentication error: " \o m
      ]_vars

\* error() answered in the middle of a setup pipeline, whose record is kept
C13_Witness ==
    /\ last.op = "error"
    /\ last.ret = "sentry-organization-auth-settings"
    /\ auth # <<>>
    /\ auth[1].idx = 0
    /\ auth[1].flow = FLOW_SETUP_PROVIDER

\* C16: get_current_view returns pipeline[idx] when 0 <= idx < N and raises,
\* returning no step, for every other idx, -1 and N included.
C16_CurrentViewInBoundsOnly ==
    (last.op = "get_current_view" /\ auth # <<>> /\ helper # <<>>) =>
        LET idx == auth[1].idx
            pipeline == helper[1].pipeline
        IN  IF 0 <= idx /\ idx < Len(pipeline)
            THEN last.ret = "" /\ last.view = pipeline[idx + 1]
            ELSE last.ret \in {"IndexError", "KeyError"} /\ last.view = ""

\* C17: no operation but init_pipeline changes 'flow', 'sig', 'org', 'ap' or
\* 'p' of a record that stays in the session.
C17_RecordHeaderFixed ==
    [][ (KeepsRecord /\ ~Did("init_pipeline")) =>
          /\ auth'[1].flow = auth[1].flow
          /\ auth'[1].sig = auth[1].sig
          /\ auth'[1].org = auth[1].org
          /\ auth'[1].ap = auth[1].ap
          /\ auth'[1].p = auth[1].p
      ]_vars

\* a record with a provider reference and a bound key was advanced
C17_Witness ==
    /\ last.op = "next_step"
    /\ last.ret = "dispatch"
    /\ auth # <<>>
    /\ auth[1].ap # 0
    /\ DOMAIN auth[1].state # {}

\* C19: init_pipeline replaces the record by one with idx -1, an empty state
\* blob, the helper's flow, organization and provider and the signature of
\* the helper's pipeline, sets the dirty flag, and the helper then finds the
\* pipeline valid.
C19_InitWritesFreshRecord ==
    [][ Did("init_pipeline") =>
          /\ auth' # <<>>
          /\ auth'[1].idx = -1
          /\ DOMAIN auth'[1].state = {}
          /\ auth'[1].flow = helper[1].flow
          /\ auth'[1].org = helper[1].organization
          /\ auth'[1].sig = md5(Join(helper[1].pipeline))
          /\ is_modified'
          /\ helper' = helper
          /\ IsValid(helper'[1], auth')
      ]_vars

\* init_pipeline restarted a pipeline that a finished setup had left behind
C19_Witness ==
    /\ last.op = "init_pipeline"
    /\ auth # <<>>
    /\ auth[1].idx = -1
    /\ auth[1].ap # 0
    /\ Len(helper[1].pipeline) > 0

\* every helper that meets a record resolves the pipeline the record was
\* written for
RunKeepsPipeline ==
    (auth # <<>> /\ helper # <<>>) => origin = <<helper[1].pipeline>>

\* C14: after bind_state(k, v) the blob holds v under k and what it held
\* under every other key, the dirty flag is set and the rest of the record is
\* as before; fetch_state(k) returns what the blob holds under k, None for a
\* key not bound, and changes nothing; init_pipeline leaves no key bound.
C14_StateBlobIsAMap ==
    [][ /\ (Did("bind_state") /\ auth # <<>>) =>
              LET k == last'.key
                  old == auth[1].state
                  new == auth'[1].state
              IN  /\ k \in DOMAIN new /\ new[k] = last'.value
                  /\ \A j \in StateKeys \ {k} :
                        /\ (j \in DOMAIN new) = (j \in DOMAIN old)
                        /\ j \in DOMAIN old => new[j] = old[j]
                  /\ is_modified'
                  /\ [auth'[1] EXCEPT !.state = old] = auth[1]
        /\ (Did("fetch_state") /\ auth # <<>>) =>
              LET k == last'.key
                  blob == auth[1].state
              IN  /\ last'.ret = IF k \in DOMAIN blob THEN blob[k] ELSE "None"
                  /\ auth' = auth
        /\ Did("init_pipeline") => DOMAIN auth'[1].state = {}
      ]_vars

\* the second key was bound and the first, bound before, is fetched
C14_Witness ==
    /\ last.op = "fetch_state"
    /\ last.key = "k1"
    /\ last.ret = "v2"
    /\ auth # <<>>
    /\ DOMAIN auth[1].state = {"k1", "k2"}
    /\ auth[1].state["k2"] = "v1"

\* C15: an advance on a record with idx = k - 2, the k-th after
\* init_pipeline, dispatches pipeline[k-1] and nothing else when k <= N, and
\* runs finish exactly when k = N + 1; every advance that keeps the record
\* moves idx by one, so the steps are dispatched in order and finish comes
\* after all of them.
C15_DispatchInOrder ==
    [][ /\ (Did("next_step") /\ auth # <<>>) =>
              LET i == auth[1].idx + 1
                  pipeline == origin[1]
              IN  /\ i < Len(pipeline) =>
                        /\ last'.ret = "dispatch"
                        /\ last'.view = pipeline[i + 1]
                  /\ last'.fin = (i = Len(pipeline))
                  /\ last'.fin => last'.view = ""
                  /\ i > Len(pipeline) => last'.ret = "IndexError"
                  /\ auth' # <<>> => auth'[1].idx = i
        /\ Did("init_pipeline") => auth'[1].idx = -1
      ]_vars

\* the second and last step of a pipeline was dispatched
C15_Witness ==
    /\ last.op = "next_step"
    /\ last.ret = "dispatch"
    /\ last.view = "b"
    /\ auth # <<>>
    /\ auth[1].idx = 1
    /\ Len(helper[1].pipeline) = 2

\* C18: of the operations that leave a record in the session, only
\* bind_state and init_pipeline change the state blob, and bind_state only
\* under its key: what was bound stays fetchable across next_step and error.
C18_StateBlobOnlyGrows ==
    [][ /\ (KeepsRecord /\ ~Did("init_pipeline") /\ ~Did("bind_state")) =>
              auth'[1].state = auth[1].state
        /\ (KeepsRecord /\ Did("bind_state")) =>
              \A j \in DOMAIN auth[1].state \ {last'.key} :
                  /\ j \in DOMAIN auth'[1].state
                  /\ auth'[1].state[j] = auth[1].state[j]
      ]_vars

\* two bound keys are still in the blob after a step was dispatched
C18_Witness ==
    /\ last.op = "next_step"
    /\ last.ret = "dispatch"
    /\ auth # <<>>
    /\ auth[1].idx = 1
    /\ DOMAIN auth[1].state = {"k1", "k2"}
    /\ auth[1].state["k1"] # auth[1].state["k2"]

\* the running request writes its session back
IsSave == base # <<>> /\ base' = <<>> /\ parked' = parked

\* the running and the suspended request loaded the same record
SameLoad == base # <<>> /\ base[1] # <<>> /\ parked.base = base

\* C20: of two requests that load the record at idx = i and advance once on
\* their copies, each dispatches pipeline[i+1], or runs finish when
\* i + 1 = N, and holds idx = i + 1; a request that writes back leaves
\* exactly its copy in the store, idx = i + 1 and its state blob, whatever
\* the other request wrote before.
C20_LastWriteWins ==
    [][ /\ (IsSave /\ is_modified) =>
              /\ store' = auth
              /\ (auth # <<>> /\ base[1] # <<>>) =>
                    /\ auth[1].idx >= base[1][1].idx
                    /\ auth[1].idx <= base[1][1].idx + 1
        /\ (SameLoad /\ last.op = "next_step" /\ parked.last.op = "next_step") =>
              LET i == base[1][1].idx
              IN  /\ last.view = parked.last.view
                  /\ last.fin = parked.last.fin
                  /\ last.fin = (i + 1 = Len(helper[1].pipeline))
                  /\ i + 1 < Len(helper[1].pipeline) =>
                        last.view = helper[1].pipeline[i + 2]
                  /\ auth # <<>> => auth[1].idx = i + 1
                  /\ parked.auth # <<>> => parked.auth[1].idx = i + 1
      ]_vars

\* both requests loaded idx = i; the other has written back idx = i + 1 and
\* a binding, this one has advanced to idx = i + 1 too and writes next
C20_Witness ==
    /\ parked.base = <<>>
    /\ base # <<>>
    /\ store # base[1]
    /\ base[1] # <<>>
    /\ last.op = "next_step"
    /\ last.ret = "dispatch"
    /\ auth # <<>>
    /\ is_modified
    /\ auth[1].idx = base[1][1].idx + 1
    /\ store # <<>>
    /\ store[1].idx = auth[1].idx
    /\ DOMAIN store[1].state # {}
    /\ DOMAIN auth[1].state = {}

====
